---------------------------- MODULE Spec2Model ----------------------------
(***************************************************************************)
(* SimpleStorage DApp: the SimpleStorage contract (owner-gated message     *)
(* store with an ETH balance), the wallet provider (window.ethereum) and   *)
(* the chain client layer of src/utils/ethereum.js.                        *)
(*                                                                         *)
(* Amounts are in wei.  Gas is not modelled: wallet[a] counts value        *)
(* transfers only.  Every account is an externally owned account, so a     *)
(* transfer to it cannot fail.                                             *)
(***************************************************************************)
EXTENDS Integers, Sequences, FiniteSets, TLC

(***************************************************************************)
(* Bounds of the model                                                     *)
(***************************************************************************)
\* Number of decimals of the native currency in the model.  Ether has 18;
\* 10^18 is beyond the integers of the checker, so the model scales the
\* unit down and keeps the conversions' algorithms.
Decimals == 2

RECURSIVE Pow10(_)
Pow10(n) == IF n = 0 THEN 1 ELSE 10 * Pow10(n - 1)

WeiPerEther == Pow10(Decimals)

\* Funds every account starts with (wei).
InitFunds == 2 * WeiPerEther

Accounts == {"0xa1", "0xb2"}

Messages == {"", "hola", "chau"}

\* msg.value of the deposits made directly on the chain
DepositValues == {0, WeiPerEther \div 2, WeiPerEther}

NoRet == "void"

(***************************************************************************)
(* State                                                                   *)
(***************************************************************************)
VARIABLES
    owner,      \* SimpleStorage.owner
    message,    \* SimpleStorage.message
    balance,    \* address(this).balance
    wallet,     \* balance of every account
    deployer,   \* msg.sender of the constructor (history)
    deposited,  \* sum of the deposits since the last successful withdraw (history)
    stored,     \* the text of the last storeMessage executed, if any (history)
    pre,        \* contract state before the last call (history)
    lastCall    \* the last call executed by the contract and its outcome (history)

contractVars == <<owner, message, balance, wallet, deployer, deposited, stored, pre, lastCall>>

\* The wallet provider (window.ethereum)
VARIABLES
    installed,      \* window.ethereum !== undefined
    chainId,        \* the chain the wallet is on
    authorized,     \* the accounts the wallet exposes to the page, selected one first
    sepoliaKnown,   \* whether the wallet knows the Sepolia chain
    chainListeners, \* number of chainChanged listeners registered on the provider
    netCallbacks    \* what the last chainChanged event handed to each callback

providerVars == <<installed, chainId, authorized, sepoliaKnown, chainListeners, netCallbacks>>

\* The chain client layer: one operation at a time
VARIABLES
    op,         \* the operation in progress or finished: its name and argument
    pc,         \* where the operation is: idle, an await, or done
    handle,     \* the contract handle of the operation: none, provider or signer
    requests,   \* the provider requests the operation issued, with their answers
    tx,         \* the transaction the operation submitted
    result      \* what the operation returned or threw

clientVars == <<op, pc, handle, requests, tx, result>>

\* The page (App.jsx)
VARIABLES
    session,         \* the values of the useState hooks of App
    action,          \* the click handler in flight, or the last one that ended
    init,            \* where init() of the mount effect stands
    closures,        \* per registered pair of listeners, the state its handlers closed over
    lastEvent        \* the last event of the provider handed to the handlers

uiVars == <<session, action, init, closures, lastEvent>>

\* The chain state a call reads and writes
ChainState ==
    [owner |-> owner, message |-> message, balance |-> balance, wallet |-> wallet]

(***************************************************************************)
(* The contract: every function maps the state before the call, msg.sender *)
(* and its arguments to the outcome: ok (no revert), the revert reason,    *)
(* the returned value and the state after the call.                        *)
(***************************************************************************)
Return(st, ret) == [ok |-> TRUE, reason |-> "", ret |-> ret, st |-> st]

\* A revert rolls every effect of the call back
Revert(st, reason) == [ok |-> FALSE, reason |-> reason, ret |-> NoRet, st |-> st]

\* Faulty variant: the constructor does not run, owner stays the zero address
SimpleStorage_constructor_Unset(sender) ==
    [owner |-> "0x0", message |-> "", balance |-> 0,
     wallet |-> [a \in Accounts |-> InitFunds]]

\* constructor() { owner = msg.sender; }
SimpleStorage_constructor(sender) ==
    [owner |-> sender, message |-> "", balance |-> 0,
     wallet |-> [a \in Accounts |-> InitFunds]]

\* the getter of "address public owner"
SimpleStorage_owner(st, sender) == Return(st, st.owner)

\* Faulty variant: only the owner may store
SimpleStorage_storeMessage_OwnerOnly(st, sender, m) ==
    IF sender # st.owner THEN Revert(st, "Solo el owner")
    ELSE Return([st EXCEPT !.message = m], NoRet)

SimpleStorage_storeMessage(st, sender, m) ==
    Return([st EXCEPT !.message = m], NoRet)

SimpleStorage_getMessage(st, sender) == Return(st, st.message)

\* Faulty variant: deposits are capped at one ether of balance
SimpleStorage_deposit_Capped(st, sender, value) ==
    IF st.balance + value > WeiPerEther THEN Revert(st, "Cap")
    ELSE Return([st EXCEPT !.balance = @ + value,
                           !.wallet = [@ EXCEPT ![sender] = @ - value]], NoRet)

\* deposit() external payable {}: msg.value moves from the sender to the
\* contract before the (empty) body runs
SimpleStorage_deposit(st, sender, value) ==
    Return([st EXCEPT !.balance = @ + value,
                      !.wallet = [@ EXCEPT ![sender] = @ - value]], NoRet)

\* Faulty variant: no owner check
SimpleStorage_withdraw_NoOwnerCheck(st, sender) ==
    LET bal == st.balance IN
    IF ~(bal > 0) THEN Revert(st, "Sin fondos")
    ELSE Return([st EXCEPT !.balance = @ - bal,
                           !.wallet = [@ EXCEPT ![st.owner] = @ + bal]], NoRet)

\* Faulty variant: no check of the balance
SimpleStorage_withdraw_NoFundsCheck(st, sender) ==
    IF ~(sender = st.owner) THEN Revert(st, "Solo el owner puede retirar")
    ELSE LET bal == st.balance IN
         Return([st EXCEPT !.balance = @ - bal,
                           !.wallet = [@ EXCEPT ![st.owner] = @ + bal]], NoRet)

\* Faulty variant: a successful withdraw also clears the message
SimpleStorage_withdraw_ClearsMessage(st, sender) ==
    IF ~(sender = st.owner) THEN Revert(st, "Solo el owner puede retirar")
    ELSE LET bal == st.balance IN
         IF ~(bal > 0) THEN Revert(st, "Sin fondos")
         ELSE Return([st EXCEPT !.balance = @ - bal, !.message = "",
                                !.wallet = [@ EXCEPT ![st.owner] = @ + bal]], NoRet)

SimpleStorage_withdraw(st, sender) ==
    IF ~(sender = st.owner) THEN Revert(st, "Solo el owner puede retirar")
    ELSE LET bal == st.balance IN
         IF ~(bal > 0) THEN Revert(st, "Sin fondos")
         ELSE Return([st EXCEPT !.balance = @ - bal,
                                !.wallet = [@ EXCEPT ![st.owner] = @ + bal]], NoRet)

SimpleStorage_getBalance(st, sender) == Return(st, st.balance)

(***************************************************************************)
(* Execution of one call by the chain                                      *)
(***************************************************************************)
\* The chain records the outcome of a call; res.st is the state after it
Execute(fn, sender, arg, res) ==
    /\ pre' = ChainState
    /\ owner' = res.st.owner
    /\ message' = res.st.message
    /\ balance' = res.st.balance
    /\ wallet' = res.st.wallet
    /\ lastCall' = [fn |-> fn, sender |-> sender, arg |-> arg,
                    ok |-> res.ok, reason |-> res.reason, ret |-> res.ret]
    /\ deposited' = IF fn = "deposit" /\ res.ok THEN deposited + arg
                    ELSE IF fn = "withdraw" /\ res.ok THEN 0
                    ELSE deposited
    /\ stored' = IF fn = "storeMessage" /\ res.ok THEN <<arg>> ELSE stored
    /\ UNCHANGED deployer

\* The outcome of a call of fn by sender in state st
CallResult(st, fn, sender, arg) ==
    CASE fn = "owner"        -> SimpleStorage_owner(st, sender)
      [] fn = "storeMessage" -> SimpleStorage_storeMessage(st, sender, arg)
      [] fn = "getMessage"   -> SimpleStorage_getMessage(st, sender)
      [] fn = "deposit"      -> SimpleStorage_deposit(st, sender, arg)
      [] fn = "withdraw"     -> SimpleStorage_withdraw(st, sender)
      [] fn = "getBalance"   -> SimpleStorage_getBalance(st, sender)

\* A transaction is valid only if its sender can pay the value it attaches
CanPay(st, sender, value) == st.wallet[sender] >= value

(***************************************************************************)
(* Calls made on the chain by any account                                  *)
(***************************************************************************)
CallOwner(sender) ==
    /\ Execute("owner", sender, NoRet, CallResult(ChainState, "owner", sender, NoRet))
    /\ UNCHANGED <<providerVars, clientVars>>

CallStoreMessage(sender, m) ==
    /\ Execute("storeMessage", sender, m, CallResult(ChainState, "storeMessage", sender, m))
    /\ UNCHANGED <<providerVars, clientVars>>

CallGetMessage(sender) ==
    /\ Execute("getMessage", sender, NoRet, CallResult(ChainState, "getMessage", sender, NoRet))
    /\ UNCHANGED <<providerVars, clientVars>>

CallDeposit(sender, value) ==
    /\ CanPay(ChainState, sender, value)
    /\ Execute("deposit", sender, value, CallResult(ChainState, "deposit", sender, value))
    /\ UNCHANGED <<providerVars, clientVars>>

CallWithdraw(sender) ==
    /\ Execute("withdraw", sender, NoRet, CallResult(ChainState, "withdraw", sender, NoRet))
    /\ UNCHANGED <<providerVars, clientVars>>

CallGetBalance(sender) ==
    /\ Execute("getBalance", sender, NoRet, CallResult(ChainState, "getBalance", sender, NoRet))
    /\ UNCHANGED <<providerVars, clientVars>>

InitContract ==
    /\ deployer \in Accounts
    /\ LET st == SimpleStorage_constructor(deployer) IN
        /\ owner = st.owner
        /\ message = st.message
        /\ balance = st.balance
        /\ wallet = st.wallet
        /\ pre = st
    /\ deposited = 0
    /\ stored = <<>>
    /\ lastCall = [fn |-> "constructor", sender |-> deployer, arg |-> NoRet,
                   ok |-> TRUE, reason |-> "", ret |-> NoRet]

(***************************************************************************)
(* The wallet provider (window.ethereum)                                   *)
(***************************************************************************)
SEPOLIA_CHAIN_ID == "0xaa36a7"

\* The chain ids a wallet may be on: Sepolia and mainnet
ChainIds == {SEPOLIA_CHAIN_ID, "0x1"}

\* Most chainChanged listeners the model registers
MaxListeners == 1

\* error.code of "the chain has not been added to MetaMask"
CHAIN_UNKNOWN == 4902

\* Codes of the other failures: the user rejects the request; the transport fails
UserCodes == {4001}

TransportCodes == {-32603}

OtherCodes == UserCodes \cup TransportCodes

\* error.message of a provider error
ProviderMessage(code) ==
    IF code = CHAIN_UNKNOWN THEN "Unrecognized chain ID"
    ELSE IF code \in UserCodes THEN "User rejected the request"
    ELSE "Internal JSON-RPC error"

\* A request (its method and params) with its answer, as the page sees it
Answered(method, params, value) ==
    [method |-> method, params |-> params, ok |-> TRUE, value |-> value,
     code |-> 0, message |-> ""]

\* A request the provider fails with an error code
Rejected(method, params, code) ==
    [method |-> method, params |-> params, ok |-> FALSE, value |-> NoRet,
     code |-> code, message |-> ProviderMessage(code)]

\* A request that fails in the library, with no provider code
Failed(method, params, msg) ==
    [method |-> method, params |-> params, ok |-> FALSE, value |-> NoRet,
     code |-> 0, message |-> msg]

\* params of wallet_switchEthereumChain
SwitchParams == [chainId |-> "0xaa36a7"]

\* params of wallet_addEthereumChain: the descriptor of the Sepolia chain
AddParams ==
    [chainId |-> "0xaa36a7",
     chainName |-> "Sepolia Testnet",
     nativeCurrency |-> [name |-> "Sepolia ETH", symbol |-> "ETH", decimals |-> 18],
     rpcUrls |-> <<"https://sepolia.infura.io/v3/">>,
     blockExplorerUrls |-> <<"https://sepolia.etherscan.io/">>]

\* Non-empty lists of distinct accounts
AccountLists ==
    {<<a>> : a \in Accounts} \cup
    {l \in Accounts \X Accounts : l[1] # l[2]}

(***************************************************************************)
(* The chain client layer (utils/ethereum.js): one operation at a time     *)
(***************************************************************************)
NoTx == [status |-> "none"]

NoResult == [status |-> "none"]

\* A returned value
Ok(value) == [status |-> "ok", value |-> value]

\* new Error(text): a message is the sequence of the segments that ": " joins
Error(text) == [status |-> "error", message |-> <<text>>]

\* new Error(`${prefix}: ${error.message}`)
Wrap(prefix, msg) == [status |-> "error", message |-> <<prefix>> \o msg]

isMetaMaskInstalled == installed

\* The operation starts: nothing requested yet
Begin(name, arg) ==
    /\ pc \in {"idle", "done"}
    /\ op' = [name |-> name, arg |-> arg]
    /\ requests' = <<>>
    /\ tx' = NoTx

\* The operation ends with r
Finish(r) ==
    /\ pc' = "done"
    /\ result' = r

(***************************************************************************)
(* Events of the provider                                                  *)
(***************************************************************************)
\* The argument the listener of listenForNetworkChanges hands its callback
NetworkListenerArg(id) == id = "0xaa36a7"

\* The wallet moves to chain id: chainChanged is emitted to every listener
\* when the chain differs from the current one
MoveToChain(id) ==
    /\ chainId' = id
    /\ netCallbacks' = IF id = chainId THEN netCallbacks
                       ELSE [i \in 1..chainListeners |-> NetworkListenerArg(id)]

\* window.ethereum.on('chainChanged', ...) when window.ethereum is there
listenForNetworkChanges ==
    /\ chainListeners < MaxListeners
    /\ chainListeners' = IF installed THEN chainListeners + 1 ELSE chainListeners
    /\ UNCHANGED <<installed, chainId, authorized, sepoliaKnown, netCallbacks>>
    /\ UNCHANGED <<contractVars, clientVars>>

\* The user changes the network in the wallet
WalletSwitchChain(id) ==
    /\ installed
    /\ id # chainId
    /\ id = SEPOLIA_CHAIN_ID => sepoliaKnown
    /\ MoveToChain(id)
    /\ UNCHANGED <<installed, authorized, sepoliaKnown, chainListeners>>
    /\ UNCHANGED <<contractVars, clientVars>>

\* The user selects other accounts in the wallet, or disconnects the page
WalletSelectAccounts(accts) ==
    /\ installed
    /\ authorized # <<>>
    /\ accts # authorized
    /\ authorized' = accts
    /\ UNCHANGED <<installed, chainId, sepoliaKnown, chainListeners, netCallbacks>>
    /\ UNCHANGED <<contractVars, clientVars>>

(***************************************************************************)
(* connectWallet                                                           *)
(***************************************************************************)
\* Faulty variant: the last account of the list is returned
connectWallet_onAnswer_Last(ans) ==
    IF ans.ok THEN Ok(ans.value[Len(ans.value)])
    ELSE Wrap("Failed to connect to wallet", <<ans.message>>)

\* What connectWallet returns or throws on the answer to eth_requestAccounts
connectWallet_onAnswer(ans) ==
    IF ans.ok THEN Ok(ans.value[1])
    ELSE Wrap("Failed to connect to wallet", <<ans.message>>)

\* Whether connectWallet stops before any request
connectWallet_notInstalled == ~isMetaMaskInstalled

connectWallet_start ==
    /\ Begin("connectWallet", NoRet)
    /\ handle' = "none"
    /\ IF connectWallet_notInstalled
       THEN Finish(Error("MetaMask is not installed"))
       ELSE pc' = "eth_requestAccounts" /\ result' = NoResult
    /\ UNCHANGED <<contractVars, providerVars>>

\* eth_requestAccounts is answered: the accounts already exposed, or the ones
\* the user approves, or a failure
connectWallet_await ==
    /\ pc = "eth_requestAccounts"
    /\ installed
    /\ \/ \E accts \in AccountLists :
            /\ authorized # <<>> => accts = authorized
            /\ authorized' = accts
            /\ LET ans == Answered("eth_requestAccounts", NoRet, accts) IN
                /\ requests' = Append(requests, ans)
                /\ Finish(connectWallet_onAnswer(ans))
       \/ \E code \in OtherCodes :
            /\ LET ans == Rejected("eth_requestAccounts", NoRet, code) IN
                /\ requests' = Append(requests, ans)
                /\ Finish(connectWallet_onAnswer(ans))
            /\ UNCHANGED authorized
    /\ UNCHANGED <<op, handle, tx>>
    /\ UNCHANGED <<installed, chainId, sepoliaKnown, chainListeners, netCallbacks>>
    /\ UNCHANGED contractVars

(***************************************************************************)
(* checkNetwork                                                            *)
(***************************************************************************)
\* window.ethereum.request with window.ethereum undefined throws a TypeError
NO_PROVIDER_TYPE_ERROR == "Cannot read properties of undefined (reading 'request')"

\* Faulty variant: a failed request counts as "not on Sepolia"
checkNetwork_onAnswer_FalseOnError(ans) ==
    IF ans.ok THEN Ok(ans.value = "0xaa36a7") ELSE Ok(FALSE)

checkNetwork_onAnswer(ans) ==
    IF ans.ok THEN Ok(ans.value = "0xaa36a7")
    ELSE Wrap("Failed to check network", <<ans.message>>)

checkNetwork_start ==
    /\ Begin("checkNetwork", NoRet)
    /\ handle' = "none"
    /\ IF ~installed
       THEN Finish(Wrap("Failed to check network", <<NO_PROVIDER_TYPE_ERROR>>))
       ELSE pc' = "eth_chainId" /\ result' = NoResult
    /\ UNCHANGED <<contractVars, providerVars>>

checkNetwork_await ==
    /\ pc = "eth_chainId"
    /\ installed
    /\ \E ans \in {Answered("eth_chainId", NoRet, chainId)} \cup
                  {Rejected("eth_chainId", NoRet, code) : code \in TransportCodes} :
        /\ requests' = Append(requests, ans)
        /\ Finish(checkNetwork_onAnswer(ans))
    /\ UNCHANGED <<op, handle, tx>>
    /\ UNCHANGED <<contractVars, providerVars>>

(***************************************************************************)
(* switchToSepolia                                                         *)
(***************************************************************************)
\* Faulty variant: any failure of the switch leads to the add request
switchToSepolia_onSwitchAnswer_AlwaysAdd(ans) ==
    IF ans.ok THEN [pc |-> "done", result |-> Ok(TRUE)]
    ELSE [pc |-> "wallet_addEthereumChain", result |-> NoResult]

\* After the answer to wallet_switchEthereumChain: return, throw, or go on to
\* wallet_addEthereumChain
switchToSepolia_onSwitchAnswer(ans) ==
    IF ans.ok THEN [pc |-> "done", result |-> Ok(TRUE)]
    ELSE IF ans.code = CHAIN_UNKNOWN
         THEN [pc |-> "wallet_addEthereumChain", result |-> NoResult]
         ELSE [pc |-> "done",
               result |-> Wrap("Failed to switch to Sepolia network",
                               <<ans.message>>)]

\* Variant: the switch is requested again once the chain is added
switchToSepolia_onAddAnswer_Retry(ans) ==
    IF ans.ok THEN [pc |-> "wallet_switchEthereumChain", result |-> NoResult]
    ELSE [pc |-> "done",
          result |-> Wrap("Failed to add Sepolia network", <<ans.message>>)]

\* After the answer to wallet_addEthereumChain
switchToSepolia_onAddAnswer(ans) ==
    IF ans.ok THEN [pc |-> "done", result |-> Ok(TRUE)]
    ELSE [pc |-> "done",
          result |-> Wrap("Failed to add Sepolia network",
                          <<ans.message>>)]

switchToSepolia_start ==
    /\ Begin("switchToSepolia", NoRet)
    /\ handle' = "none"
    /\ IF ~installed
       THEN Finish(Wrap("Failed to switch to Sepolia network", <<NO_PROVIDER_TYPE_ERROR>>))
       ELSE pc' = "wallet_switchEthereumChain" /\ result' = NoResult
    /\ UNCHANGED <<contractVars, providerVars>>

\* wallet_switchEthereumChain is answered: the wallet switches, or does not
\* know the chain (4902), or the request fails
switchToSepolia_awaitSwitch ==
    /\ pc = "wallet_switchEthereumChain"
    /\ installed
    /\ \E ans \in {Answered("wallet_switchEthereumChain", SwitchParams, NoRet)} \cup
                  {Rejected("wallet_switchEthereumChain", SwitchParams, code) :
                      code \in OtherCodes \cup {CHAIN_UNKNOWN}} :
        /\ ans.ok => sepoliaKnown
        /\ (~ans.ok /\ ans.code = CHAIN_UNKNOWN) => ~sepoliaKnown
        /\ IF ans.ok THEN MoveToChain(ans.params.chainId)
           ELSE UNCHANGED <<chainId, netCallbacks>>
        /\ requests' = Append(requests, ans)
        /\ pc' = switchToSepolia_onSwitchAnswer(ans).pc
        /\ result' = switchToSepolia_onSwitchAnswer(ans).result
    /\ UNCHANGED <<op, handle, tx>>
    /\ UNCHANGED <<installed, authorized, sepoliaKnown, chainListeners>>
    /\ UNCHANGED contractVars

\* wallet_addEthereumChain is answered: the wallet adds the chain, and then
\* moves to it or stays where it is; or the request fails
switchToSepolia_awaitAdd ==
    /\ pc = "wallet_addEthereumChain"
    /\ installed
    /\ \E ans \in {Answered("wallet_addEthereumChain", AddParams, NoRet)} \cup
                  {Rejected("wallet_addEthereumChain", AddParams, code) : code \in OtherCodes} :
        /\ IF ans.ok
           THEN /\ sepoliaKnown' = TRUE
                /\ \E id \in {chainId, ans.params.chainId} : MoveToChain(id)
           ELSE UNCHANGED <<sepoliaKnown, chainId, netCallbacks>>
        /\ requests' = Append(requests, ans)
        /\ pc' = switchToSepolia_onAddAnswer(ans).pc
        /\ result' = switchToSepolia_onAddAnswer(ans).result
    /\ UNCHANGED <<op, handle, tx>>
    /\ UNCHANGED <<installed, authorized, chainListeners>>
    /\ UNCHANGED contractVars

(***************************************************************************)
(* Ether amounts as decimal strings: whole "." frac, frac a sequence of    *)
(* digits                                                                  *)
(***************************************************************************)
RECURSIVE DigitsValue(_)
DigitsValue(ds) ==
    IF ds = <<>> THEN 0 ELSE 10 * DigitsValue(SubSeq(ds, 1, Len(ds) - 1)) + ds[Len(ds)]

\* The n digits of r, leading zeros kept
Digits(r, n) == [i \in 1..n |-> (r \div Pow10(n - i)) % 10]

RECURSIVE StripZeros(_)
StripZeros(ds) ==
    IF Len(ds) > 1 /\ ds[Len(ds)] = 0 THEN StripZeros(SubSeq(ds, 1, Len(ds) - 1)) ELSE ds

\* ethers.utils.formatEther: trailing zeros of the fraction dropped, one digit kept
formatEther(wei) ==
    [whole |-> wei \div WeiPerEther,
     frac |-> StripZeros(Digits(wei % WeiPerEther, Decimals))]

\* ethers.utils.parseEther: throws on more fraction digits than the currency has
parseEther(amount) ==
    IF Len(amount.frac) > Decimals
    THEN Error("fractional component exceeds decimals")
    ELSE Ok(amount.whole * WeiPerEther
            + DigitsValue(amount.frac) * Pow10(Decimals - Len(amount.frac)))

\* The amounts deposit is called with: "0.5", "1", "1.0" and an amount with
\* one digit more than the currency has
DepositAmounts ==
    {[whole |-> 0, frac |-> <<5>>], [whole |-> 1, frac |-> <<>>],
     [whole |-> 1, frac |-> <<0>>],
     [whole |-> 0, frac |-> [i \in 1..(Decimals + 1) |-> 1]]}

(***************************************************************************)
(* getContract and the wrappers of the contract's functions                *)
(***************************************************************************)
\* getContract(withSigner): the handle, bound to a signer or to the provider
getContract(withSigner) ==
    IF ~isMetaMaskInstalled THEN Error("MetaMask is not installed")
    ELSE Ok(IF withSigner THEN "signer" ELSE "provider")

\* The code at CONTRACT_ADDRESS is SimpleStorage on Sepolia; the address holds
\* no code on the other chains
ContractDeployedOn(id) == id = SEPOLIA_CHAIN_ID

\* A wrapper starts: it gets its handle, or throws what getContract threw,
\* wrapped with its own prefix
WrapperStart(name, arg, withSigner, prefix, await) ==
    /\ Begin(name, arg)
    /\ LET c == getContract(withSigner) IN
        IF c.status = "error"
        THEN handle' = "none" /\ Finish(Wrap(prefix, c.message))
        ELSE handle' = c.value /\ pc' = await /\ result' = NoResult
    /\ UNCHANGED <<contractVars, providerVars>>

\* The answers to a call of the view function fn through the handle
CallAnswers(fn) ==
    (IF ContractDeployedOn(chainId)
     THEN {Answered("eth_call", fn, CallResult(ChainState, fn, "0x0", NoRet).ret)}
     ELSE {Failed("eth_call", fn, "call revert exception")})
    \cup {Rejected("eth_call", fn, code) : code \in TransportCodes}

\* A read wrapper gets the answer to its call
ReadAwait(name, ans, ret) ==
    /\ pc = "eth_call"
    /\ op.name = name
    /\ requests' = Append(requests, ans)
    /\ Finish(ret)
    /\ UNCHANGED <<op, handle, tx>>
    /\ UNCHANGED <<contractVars, providerVars>>

\* An address as ethers returns it, with the mixed case of its checksum
getAddress(a) ==
    CASE a = "0xa1" -> "0xA1"
      [] a = "0xb2" -> "0xB2"
      [] OTHER -> a

\* What a read wrapper returns or throws on the answer to its call
getContractOwner_onAnswer(ans) ==
    IF ans.ok THEN Ok(getAddress(ans.value)) ELSE Wrap("Failed to get contract owner", <<ans.message>>)

getMessage_onAnswer(ans) ==
    IF ans.ok THEN Ok(ans.value) ELSE Wrap("Failed to get message", <<ans.message>>)

getBalance_onAnswer(ans) ==
    IF ans.ok THEN Ok(formatEther(ans.value)) ELSE Wrap("Failed to get balance", <<ans.message>>)

getContractOwner_start ==
    WrapperStart("getContractOwner", NoRet, FALSE, "Failed to get contract owner", "eth_call")

getContractOwner_await ==
    \E ans \in CallAnswers("owner") :
        ReadAwait("getContractOwner", ans, getContractOwner_onAnswer(ans))

getMessage_start ==
    WrapperStart("getMessage", NoRet, FALSE, "Failed to get message", "eth_call")

getMessage_await ==
    \E ans \in CallAnswers("getMessage") :
        ReadAwait("getMessage", ans, getMessage_onAnswer(ans))

getBalance_start ==
    WrapperStart("getBalance", NoRet, FALSE, "Failed to get balance", "eth_call")

getBalance_await ==
    \E ans \in CallAnswers("getBalance") :
        ReadAwait("getBalance", ans, getBalance_onAnswer(ans))

\* The transaction a write wrapper submits: msg.value is the argument of a
\* deposit and 0 otherwise
TxValue(fn, arg) == IF fn = "deposit" THEN arg ELSE 0

\* The answers to the submission of a transaction calling fn: the handle
\* has no signer; the signer has no account; the gas estimate fails because
\* the call would revert or the sender cannot pay; the user rejects it or the
\* transport fails; or it is sent
SubmitAnswers(fn, arg) ==
    LET params == [fn |-> fn, value |-> TxValue(fn, arg)] IN
    IF handle # "signer"
    THEN {Failed("eth_sendTransaction", params, "sending a transaction requires a signer")}
    ELSE IF authorized = <<>>
    THEN {Failed("eth_sendTransaction", params, "unknown account #0")}
    ELSE LET from == authorized[1] IN
         (IF ContractDeployedOn(chainId) /\ ~CanPay(ChainState, from, TxValue(fn, arg))
          THEN {Failed("eth_estimateGas", params, "insufficient funds")}
          ELSE IF ContractDeployedOn(chainId) /\ ~CallResult(ChainState, fn, from, arg).ok
          THEN {Failed("eth_estimateGas", params, CallResult(ChainState, fn, from, arg).reason)}
          ELSE {Answered("eth_sendTransaction", params, "txhash")})
         \cup {Rejected("eth_sendTransaction", params, code) : code \in OtherCodes}

\* contract.fn(...) resolves once the transaction is submitted, or throws
WriteSubmit(name, fn, arg, prefix) ==
    /\ pc = "eth_sendTransaction"
    /\ op.name = name
    /\ \E ans \in SubmitAnswers(fn, arg) :
        /\ requests' = Append(requests, ans)
        /\ IF ans.ok
           THEN /\ tx' = [status |-> "pending", fn |-> fn, from |-> authorized[1],
                          arg |-> arg, chain |-> chainId]
                /\ pc' = "tx.wait"
                /\ result' = NoResult
           ELSE /\ tx' = tx
                /\ Finish(Wrap(prefix, <<ans.message>>))
    /\ UNCHANGED <<op, handle>>
    /\ UNCHANGED <<contractVars, providerVars>>

\* The chain includes the pending transaction in a block: on Sepolia the
\* contract executes the call; on another chain the address holds no code and
\* the transaction succeeds without reaching the contract
IncludeTx ==
    /\ tx.status = "pending"
    /\ IF ContractDeployedOn(tx.chain)
       THEN /\ CanPay(ChainState, tx.from, TxValue(tx.fn, tx.arg))
            /\ LET res == CallResult(ChainState, tx.fn, tx.from, tx.arg) IN
                /\ Execute(tx.fn, tx.from, tx.arg, res)
                /\ tx' = [tx EXCEPT !.status = IF res.ok THEN "included" ELSE "reverted"]
       ELSE /\ tx' = [tx EXCEPT !.status = "included"]
            /\ UNCHANGED contractVars
    /\ UNCHANGED <<op, pc, handle, requests, result>>
    /\ UNCHANGED providerVars

\* Faulty variant: the wrapper does not wait for the transaction
TxWaitResolved_OnSubmit(t) == TRUE

\* tx.wait() resolves or throws only when the transaction is in a block
TxWaitResolved(t) == t.status # "pending"

\* await tx.wait(): the receipt, or the failure of a reverted transaction
WriteWait(name, prefix) ==
    /\ pc = "tx.wait"
    /\ op.name = name
    /\ TxWaitResolved(tx)
    /\ Finish(IF tx.status = "reverted" THEN Wrap(prefix, <<"transaction failed">>)
              ELSE Ok("receipt"))
    /\ UNCHANGED <<op, handle, requests, tx>>
    /\ UNCHANGED <<contractVars, providerVars>>

storeMessage_start(m) ==
    WrapperStart("storeMessage", m, TRUE, "Failed to store message", "eth_sendTransaction")

storeMessage_submit ==
    WriteSubmit("storeMessage", "storeMessage", op.arg, "Failed to store message")

storeMessage_wait == WriteWait("storeMessage", "Failed to store message")

deposit_start(amount) ==
    WrapperStart("deposit", amount, TRUE, "Failed to deposit ETH", "eth_sendTransaction")

\* parseEther(amount.toString()) is evaluated before the call is made
deposit_submit ==
    /\ op.name = "deposit"
    /\ LET v == parseEther(op.arg) IN
        IF v.status = "error"
        THEN /\ pc = "eth_sendTransaction"
             /\ Finish(Wrap("Failed to deposit ETH", v.message))
             /\ UNCHANGED <<op, handle, requests, tx>>
             /\ UNCHANGED <<contractVars, providerVars>>
        ELSE WriteSubmit("deposit", "deposit", v.value, "Failed to deposit ETH")

deposit_wait == WriteWait("deposit", "Failed to deposit ETH")

withdraw_start ==
    WrapperStart("withdraw", NoRet, TRUE, "Failed to withdraw ETH", "eth_sendTransaction")

withdraw_submit == WriteSubmit("withdraw", "withdraw", NoRet, "Failed to withdraw ETH")

withdraw_wait == WriteWait("withdraw", "Failed to withdraw ETH")

(***************************************************************************)
(* The page (App.jsx): its state, what it renders, its event handlers      *)
(***************************************************************************)
null == "null"

\* The amount field when empty; the other amounts are whole "." frac
EmptyAmount == [empty |-> TRUE]

\* { type, message }: the message is the sequence of the segments ": " joins
Status(type, msg) == [type |-> type, message |-> msg]

\* The initial values of the useState hooks
InitialSession ==
    [account |-> null,
     isOwner |-> FALSE,
     isCorrectNetwork |-> FALSE,
     message |-> "",
     storedMessage |-> "",
     depositAmount |-> EmptyAmount,
     contractBalance |-> [whole |-> 0, frac |-> <<>>],
     status |-> Status("", <<>>),
     loading |-> FALSE]

\* The state of App but status and loading
Frame(sess) ==
    [account |-> sess.account, isCorrectNetwork |-> sess.isCorrectNetwork,
     isOwner |-> sess.isOwner, storedMessage |-> sess.storedMessage,
     contractBalance |-> sess.contractBalance, message |-> sess.message,
     depositAmount |-> sess.depositAmount]

\* Of a click handler: the call it awaits, the account of the render it was
\* created in, the calls that returned to it, whether one of them threw, how it
\* ended, and whether an event handler or init() wrote the state meanwhile;
\* running counts the handler bodies between their setLoading(true) and their
\* finally; before is the state the running handler started from, and intact
\* whether the handler that ended left that state as it was
NoAction ==
    [name |-> "none", step |-> "none", account |-> null, calls |-> {},
     failed |-> FALSE, outcome |-> "none", disturbed |-> FALSE,
     running |-> 0, before |-> Frame(InitialSession), intact |-> TRUE]

NoEvent == [kind |-> "none", arg |-> null, next |-> "return", wasOwner |-> FALSE]

InitPage ==
    /\ session = InitialSession
    /\ action = NoAction
    /\ init = [pc |-> "unmounted", account |-> null]
    /\ closures = <<>>
    /\ lastEvent = NoEvent

\* String.prototype.toLowerCase on the addresses
toLowerCase(a) ==
    CASE a = "0xA1" -> "0xa1"
      [] a = "0xB2" -> "0xb2"
      [] OTHER -> a

\* Faulty variant: the addresses are compared as they come
SameAddress_CaseSensitive(a, b) == a = b

\* account.toLowerCase() === owner.toLowerCase()
SameAddress(a, b) == toLowerCase(a) = toLowerCase(b)

\* What is rendered
ShowsNotConnected(sess) == sess.account = null

ConnectControlShown(sess) == sess.account = null

SwitchControlShown(sess) == sess.account # null /\ ~sess.isCorrectNetwork

\* Faulty variant: the sections are rendered on any network
SectionsShown_AnyNetwork(sess) == sess.account # null

SectionsShown(sess) == sess.account # null /\ sess.isCorrectNetwork

WithdrawControlShown(sess) == SectionsShown(sess) /\ sess.isOwner

\* updateContractBalance once getBalance returned or threw r: a failure is
\* written to the console and nothing else
updateContractBalance(sess, r) ==
    IF r.status = "ok" THEN [sess EXCEPT !.contractBalance = r.value] ELSE sess

\* Faulty variant: accounts[0] is handed on as it is, undefined for no account
AccountListenerArg_Raw(accounts) == IF accounts = <<>> THEN "undefined" ELSE accounts[1]

\* The argument the listener of listenForAccountChanges hands its callback
AccountListenerArg(accounts) == IF accounts = <<>> THEN null ELSE accounts[1]

\* Faulty variant: the handler leaves isOwner alone when it does not read the owner
handleAccountChange_KeepsOwner(closure, sess, newAccount) ==
    [session |-> [sess EXCEPT !.account = newAccount],
     next |-> IF newAccount # null /\ closure.isCorrectNetwork
              THEN "getContractOwner" ELSE "return"]

\* handleAccountChange up to its first await: isCorrectNetwork is the value of
\* the render the handler was created in
handleAccountChange(closure, sess, newAccount) ==
    LET s1 == [sess EXCEPT !.account = newAccount] IN
    IF newAccount # null /\ closure.isCorrectNetwork
    THEN [session |-> s1, next |-> "getContractOwner"]
    ELSE [session |-> [s1 EXCEPT !.isOwner = FALSE], next |-> "return"]

\* handleNetworkChange up to its first await: account is the value of the
\* render the handler was created in
handleNetworkChange(closure, sess, isSepolia) ==
    LET s1 == [sess EXCEPT !.isCorrectNetwork = isSepolia] IN
    IF isSepolia /\ closure.account # null
    THEN [session |-> s1, next |-> "getContractOwner"]
    ELSE [session |-> [s1 EXCEPT !.isOwner = FALSE], next |-> "return"]

\* The handlers of the first n registered listeners run one after the other
RECURSIVE AccountHandlers(_, _, _)
AccountHandlers(n, sess, newAccount) ==
    IF n = 0 THEN [session |-> sess, next |-> "return"]
    ELSE LET before == AccountHandlers(n - 1, sess, newAccount)
             r == handleAccountChange(closures[n], before.session, newAccount)
         IN [session |-> r.session,
             next |-> IF before.next = "return" THEN r.next ELSE before.next]

RECURSIVE NetworkHandlers(_, _, _)
NetworkHandlers(n, sess, isSepolia) ==
    IF n = 0 THEN [session |-> sess, next |-> "return"]
    ELSE LET before == NetworkHandlers(n - 1, sess, isSepolia)
             r == handleNetworkChange(closures[n], before.session, isSepolia)
         IN [session |-> r.session,
             next |-> IF before.next = "return" THEN r.next ELSE before.next]

\* A step of the wallet or of a request: when it changed the exposed accounts
\* or the chain, accountsChanged or chainChanged reaches the registered
\* listeners, which call the handlers
Dispatch ==
    /\ IF authorized' # authorized /\ closures # <<>>
       THEN LET r == AccountHandlers(Len(closures), session, AccountListenerArg(authorized')) IN
            /\ session' = r.session
            /\ lastEvent' = [kind |-> "accountsChanged", arg |-> authorized',
                             next |-> r.next, wasOwner |-> session.isOwner]
            /\ action' = [action EXCEPT !.disturbed = TRUE]
       ELSE IF chainId' # chainId /\ closures # <<>>
       THEN LET r == NetworkHandlers(Len(closures), session, NetworkListenerArg(chainId')) IN
            /\ session' = r.session
            /\ lastEvent' = [kind |-> "chainChanged", arg |-> <<chainId'>>,
                             next |-> r.next, wasOwner |-> session.isOwner]
            /\ action' = [action EXCEPT !.disturbed = TRUE]
       ELSE UNCHANGED <<session, lastEvent, action>>
    /\ UNCHANGED <<init, closures>>

(***************************************************************************)
(* The mount effect of App: init() and the registration of the listeners   *)
(***************************************************************************)
\* What a call of a read wrapper made now returns or throws
getContractOwner_results ==
    LET c == getContract(FALSE) IN
    IF c.status = "error" THEN {Wrap("Failed to get contract owner", c.message)}
    ELSE {getContractOwner_onAnswer(ans) : ans \in CallAnswers("owner")}

getBalance_results ==
    LET c == getContract(FALSE) IN
    IF c.status = "error" THEN {Wrap("Failed to get balance", c.message)}
    ELSE {getBalance_onAnswer(ans) : ans \in CallAnswers("getBalance")}

\* What a call of checkNetwork made now returns or throws
checkNetwork_results ==
    IF ~installed THEN {Wrap("Failed to check network", <<NO_PROVIDER_TYPE_ERROR>>)}
    ELSE {checkNetwork_onAnswer(ans) :
              ans \in {Answered("eth_chainId", NoRet, chainId)} \cup
                      {Rejected("eth_chainId", NoRet, code) : code \in TransportCodes}}

\* The answers to eth_accounts: the exposed accounts, or a failure
AccountsAnswers ==
    {Answered("eth_accounts", NoRet, authorized)} \cup
    {Rejected("eth_accounts", NoRet, code) : code \in TransportCodes}

\* Faulty variant: the listeners are registered whether or not
\* window.ethereum is there
listenForChanges_Unguarded ==
    /\ closures' = Append(closures, [fn |-> "listener", account |-> session.account,
                                     isCorrectNetwork |-> session.isCorrectNetwork])
    /\ chainListeners' = chainListeners + 1

\* window.ethereum.on('accountsChanged', ...) and on('chainChanged', ...),
\* when window.ethereum is there: the function registered (fn) is an arrow
\* made by listenForAccountChanges and listenForNetworkChanges, which calls
\* the handler of the current render
listenForChanges ==
    /\ closures' = IF installed
                   THEN Append(closures, [fn |-> "listener", account |-> session.account,
                                          isCorrectNetwork |-> session.isCorrectNetwork])
                   ELSE closures
    /\ chainListeners' = IF installed THEN chainListeners + 1 ELSE chainListeners

\* The catch block of init()
init_catch(msg) ==
    /\ session' = [session EXCEPT !.status = Status("error", <<"Initialization failed">> \o msg)]
    /\ init' = [init EXCEPT !.pc = "done"]

\* The effect runs after the first render: init() up to its first await, then
\* the two registrations.  It runs once in both versions of App: the second
\* gives it no dependencies; the dependency array of the first reads
\* handleAccountChange and handleNetworkChange above their const declarations,
\* so that a build keeping const throws in the first render and a build
\* lowering it to var reads undefined in every render and never runs the
\* effect again.  The handlers registered are those of the first render.
App_mount ==
    /\ init.pc = "unmounted"
    /\ chainListeners < MaxListeners
    /\ IF ~isMetaMaskInstalled
       THEN /\ session' = [session EXCEPT !.status =
                   Status("error",
                          <<"MetaMask is not installed. Please install MetaMask to use this DApp.">>)]
            /\ init' = [init EXCEPT !.pc = "done"]
       ELSE /\ session' = session
            /\ init' = [init EXCEPT !.pc = "eth_accounts"]
    /\ listenForChanges
    /\ UNCHANGED <<installed, chainId, authorized, sepoliaKnown, netCallbacks>>
    /\ UNCHANGED <<action, lastEvent>>
    /\ UNCHANGED <<contractVars, clientVars>>

\* eth_accounts is answered
init_accounts ==
    /\ init.pc = "eth_accounts"
    /\ \E ans \in AccountsAnswers :
        IF ~ans.ok THEN init_catch(<<ans.message>>)
        ELSE IF Len(ans.value) > 0
        THEN /\ session' = [session EXCEPT !.account = ans.value[1]]
             /\ init' = [pc |-> "checkNetwork", account |-> ans.value[1]]
        ELSE /\ session' = session
             /\ init' = [init EXCEPT !.pc = "done"]
    /\ action' = [action EXCEPT !.disturbed = TRUE]
    /\ UNCHANGED <<closures, lastEvent>>
    /\ UNCHANGED <<contractVars, providerVars, clientVars>>

\* checkNetwork() returned or threw
init_checkNetwork ==
    /\ init.pc = "checkNetwork"
    /\ \E r \in checkNetwork_results :
        IF r.status = "error" THEN init_catch(r.message)
        ELSE /\ session' = [session EXCEPT !.isCorrectNetwork = r.value]
             /\ init' = [init EXCEPT !.pc = IF r.value THEN "getContractOwner" ELSE "done"]
    /\ action' = [action EXCEPT !.disturbed = TRUE]
    /\ UNCHANGED <<closures, lastEvent>>
    /\ UNCHANGED <<contractVars, providerVars, clientVars>>

\* getContractOwner() returned or threw
init_getContractOwner ==
    /\ init.pc = "getContractOwner"
    /\ \E r \in getContractOwner_results :
        IF r.status = "error" THEN init_catch(r.message)
        ELSE /\ session' = [session EXCEPT !.isOwner = SameAddress(init.account, r.value)]
             /\ init' = [init EXCEPT !.pc = "getBalance"]
    /\ action' = [action EXCEPT !.disturbed = TRUE]
    /\ UNCHANGED <<closures, lastEvent>>
    /\ UNCHANGED <<contractVars, providerVars, clientVars>>

\* updateContractBalance() is over
init_updateContractBalance ==
    /\ init.pc = "getBalance"
    /\ \E r \in getBalance_results :
        /\ session' = updateContractBalance(session, r)
        /\ init' = [init EXCEPT !.pc = "done"]
    /\ action' = [action EXCEPT !.disturbed = TRUE]
    /\ UNCHANGED <<closures, lastEvent>>
    /\ UNCHANGED <<contractVars, providerVars, clientVars>>

\* EventEmitter.removeListener: the registered function that is the one
\* given is taken off
removeListener(listeners, fn) ==
    LET keep == {i \in DOMAIN listeners : listeners[i].fn # fn}
        nth[k \in 0..Len(listeners)] ==
            IF k = 0 THEN <<>>
            ELSE IF k \in keep THEN Append(nth[k - 1], listeners[k]) ELSE nth[k - 1]
    IN nth[Len(listeners)]

\* The cleanup of the mount effect: removeListener('accountsChanged',
\* handleAccountChange) and removeListener('chainChanged',
\* handleNetworkChange) when window.ethereum is there.  React runs it before
\* it runs the effect again and at unmount; here init() is over and the
\* component stays, so that the effect can run again
App_cleanup ==
    /\ init.pc = "done"
    /\ ~session.loading
    /\ closures' = IF installed THEN removeListener(closures, "handler") ELSE closures
    /\ chainListeners' = Len(closures')
    /\ init' = [pc |-> "unmounted", account |-> null]
    /\ UNCHANGED <<installed, chainId, authorized, sepoliaKnown, netCallbacks>>
    /\ UNCHANGED <<session, action, lastEvent>>
    /\ UNCHANGED <<contractVars, clientVars>>

(***************************************************************************)
(* The click handlers of App: each runs over the chain client layer, one   *)
(* step per awaited call                                                   *)
(***************************************************************************)
\* What the user types into the message field, "  " being blanks only
MessageInputs == {"hola", "  "}

\* String.prototype.trim
trim(m) == IF m = "  " THEN "" ELSE m

\* What the user types into the amount field: "2" and "0"
AmountInputs == {[whole |-> 2, frac |-> <<>>], [whole |-> 0, frac |-> <<>>]}

\* Faulty variant: only the empty field is refused
InvalidAmount_EmptyOnly(a) == a = EmptyAmount

\* !depositAmount || parseFloat(depositAmount) <= 0
InvalidAmount(a) ==
    \/ a = EmptyAmount
    \/ a.whole = 0 /\ DigitsValue(a.frac) = 0

\* Faulty variant: the buttons are not disabled while loading is true
Clickable_WhileLoading == init.pc # "unmounted"

\* The buttons are rendered and enabled
Clickable == init.pc # "unmounted" /\ ~session.loading

\* setLoading(true), setStatus loading, then the first call of the try block
StartAction(name, text, step, start) ==
    /\ session' = [session EXCEPT !.loading = TRUE, !.status = Status("loading", <<text>>)]
    /\ action' = [NoAction EXCEPT !.name = name, !.step = step, !.account = session.account,
                                  !.running = action.running + 1,
                                  !.before = Frame(session)]
    /\ start
    /\ UNCHANGED <<init, closures, lastEvent>>

\* An input guard refused the click: setStatus error and return
Refuse(name, text) ==
    /\ session' = [session EXCEPT !.status = Status("error", <<text>>)]
    /\ action' = [NoAction EXCEPT !.name = name, !.step = "finished",
                                  !.account = session.account, !.outcome = "invalid",
                                  !.running = action.running]
    /\ UNCHANGED <<init, closures, lastEvent>>
    /\ UNCHANGED <<contractVars, providerVars, clientVars>>

\* The call the handler name awaits at step has returned or thrown
Awaited(name) ==
    /\ action.name = name
    /\ action.step # "finished"
    /\ pc = "done"
    /\ op.name = action.step

\* The call that returned or threw to the handler, and the request to add the
\* chain when switchToSepolia made it
Returned ==
    {action.step} \cup
    {requests[i].method : i \in {j \in DOMAIN requests :
                                     requests[j].method = "wallet_addEthereumChain"}}

\* Faulty variant: loading is not reset
End_StaysLoading(sess, outcome) ==
    /\ session' = sess
    /\ action' = [action EXCEPT !.step = "finished", !.outcome = outcome,
                                 !.calls = @ \cup Returned,
                                 !.failed = result.status = "error",
                                 !.running = @ - 1,
                                 !.intact = (Frame(sess) = action.before),
                                 !.before = Frame(InitialSession)]
    /\ op' = [name |-> "none", arg |-> NoRet]
    /\ pc' = "idle"
    /\ handle' = "none"
    /\ requests' = <<>>
    /\ tx' = NoTx
    /\ result' = NoResult
    /\ UNCHANGED <<init, closures, lastEvent>>
    /\ UNCHANGED <<contractVars, providerVars>>

\* The handler ends: finally setLoading(false); nothing of the calls it made
\* is kept
End(sess, outcome) ==
    /\ session' = [sess EXCEPT !.loading = FALSE]
    /\ action' = [action EXCEPT !.step = "finished", !.outcome = outcome,
                                 !.calls = @ \cup Returned,
                                 !.failed = result.status = "error",
                                 !.running = @ - 1,
                                 !.intact = (Frame(sess) = action.before),
                                 !.before = Frame(InitialSession)]
    /\ op' = [name |-> "none", arg |-> NoRet]
    /\ pc' = "idle"
    /\ handle' = "none"
    /\ requests' = <<>>
    /\ tx' = NoTx
    /\ result' = NoResult
    /\ UNCHANGED <<init, closures, lastEvent>>
    /\ UNCHANGED <<contractVars, providerVars>>

\* Faulty variant: the message of the error is shown without the prefix
Catch_NoPrefix(prefix) ==
    End([session EXCEPT !.status = Status("error", result.message)], "error")

\* The catch block of a handler: the message of the error behind the prefix
Catch(prefix) ==
    End([session EXCEPT !.status = Status("error", <<prefix>> \o result.message)], "error")

\* The handler goes on to its next call
Then(sess, step, start) ==
    /\ session' = sess
    /\ action' = [action EXCEPT !.step = step, !.calls = @ \cup Returned]
    /\ start
    /\ UNCHANGED <<init, closures, lastEvent>>

\* The try block ends with setStatus success
Succeed(sess, text) == End([sess EXCEPT !.status = Status("success", <<text>>)], "success")

handleConnectWallet_start ==
    /\ Clickable
    /\ ConnectControlShown(session)
    /\ StartAction("handleConnectWallet", "Connecting to wallet...", "connectWallet",
                   connectWallet_start)

handleConnectWallet_resume ==
    /\ Awaited("handleConnectWallet")
    /\ IF action.step = "getBalance"
       THEN Succeed(updateContractBalance(session, result), "Wallet connected successfully!")
       ELSE IF result.status = "error" THEN Catch("Failed to connect wallet")
       ELSE IF action.step = "connectWallet"
       THEN /\ session' = [session EXCEPT !.account = result.value]
            /\ action' = [action EXCEPT !.step = "checkNetwork", !.account = result.value,
                                         !.calls = @ \cup Returned]
            /\ checkNetwork_start
            /\ UNCHANGED <<init, closures, lastEvent>>
       ELSE IF action.step = "checkNetwork"
       THEN IF result.value
            THEN Then([session EXCEPT !.isCorrectNetwork = TRUE], "getContractOwner",
                      getContractOwner_start)
            ELSE End([session EXCEPT !.isCorrectNetwork = FALSE,
                                     !.status = Status("error",
                                         <<"Please switch to the Sepolia network to use this DApp.">>)],
                     "prompt")
       ELSE Then([session EXCEPT !.isOwner = SameAddress(action.account, result.value)],
                 "getBalance", getBalance_start)

handleSwitchNetwork_start ==
    /\ Clickable
    /\ SwitchControlShown(session)
    /\ StartAction("handleSwitchNetwork", "Switching to Sepolia network...", "switchToSepolia",
                   switchToSepolia_start)

\* Faulty variant: success right after switchToSepolia, without the reads
handleSwitchNetwork_resume_NoReads ==
    /\ Awaited("handleSwitchNetwork")
    /\ IF result.status = "error" THEN Catch("Failed to switch network")
       ELSE Succeed([session EXCEPT !.isCorrectNetwork = TRUE],
                    "Switched to Sepolia network successfully!")

\* account is the value of the render the click was handled in
handleSwitchNetwork_resume ==
    /\ Awaited("handleSwitchNetwork")
    /\ IF action.step = "getBalance"
       THEN Succeed(updateContractBalance(session, result),
                    "Switched to Sepolia network successfully!")
       ELSE IF result.status = "error" THEN Catch("Failed to switch network")
       ELSE IF action.step = "switchToSepolia"
       THEN IF action.account # null
            THEN Then([session EXCEPT !.isCorrectNetwork = TRUE], "getContractOwner",
                      getContractOwner_start)
            ELSE Succeed([session EXCEPT !.isCorrectNetwork = TRUE],
                         "Switched to Sepolia network successfully!")
       ELSE Then([session EXCEPT !.isOwner = SameAddress(action.account, result.value)],
                 "getBalance", getBalance_start)

\* onChange of the message field
setMessage(m) ==
    /\ Clickable
    /\ SectionsShown(session)
    /\ m # session.message
    /\ session' = [session EXCEPT !.message = m]
    /\ UNCHANGED <<action, init, closures, lastEvent>>
    /\ UNCHANGED <<contractVars, providerVars, clientVars>>

handleStoreMessage_start ==
    /\ Clickable
    /\ SectionsShown(session)
    /\ IF trim(session.message) = ""
       THEN Refuse("handleStoreMessage", "Please enter a message to store.")
       ELSE StartAction("handleStoreMessage", "Storing message...", "storeMessage",
                        storeMessage_start(session.message))

handleStoreMessage_resume ==
    /\ Awaited("handleStoreMessage")
    /\ IF result.status = "error" THEN Catch("Failed to store message")
       ELSE Succeed([session EXCEPT !.message = ""], "Message stored successfully!")

handleGetMessage_start ==
    /\ Clickable
    /\ SectionsShown(session)
    /\ StartAction("handleGetMessage", "Retrieving message...", "getMessage", getMessage_start)

handleGetMessage_resume ==
    /\ Awaited("handleGetMessage")
    /\ IF result.status = "error" THEN Catch("Failed to retrieve message")
       ELSE Succeed([session EXCEPT !.storedMessage = result.value],
                    "Message retrieved successfully!")

\* onChange of the amount field
setDepositAmount(a) ==
    /\ Clickable
    /\ SectionsShown(session)
    /\ a # session.depositAmount
    /\ session' = [session EXCEPT !.depositAmount = a]
    /\ UNCHANGED <<action, init, closures, lastEvent>>
    /\ UNCHANGED <<contractVars, providerVars, clientVars>>

handleDeposit_start ==
    /\ Clickable
    /\ SectionsShown(session)
    /\ IF InvalidAmount(session.depositAmount)
       THEN Refuse("handleDeposit", "Please enter a valid amount to deposit.")
       ELSE StartAction("handleDeposit", "Depositing ETH...", "deposit",
                        deposit_start(session.depositAmount))

handleDeposit_resume ==
    /\ Awaited("handleDeposit")
    /\ IF action.step = "getBalance"
       THEN Succeed([updateContractBalance(session, result) EXCEPT !.depositAmount = EmptyAmount],
                    "ETH deposited successfully!")
       ELSE IF result.status = "error" THEN Catch("Failed to deposit ETH")
       ELSE Then(session, "getBalance", getBalance_start)

handleWithdraw_start ==
    /\ Clickable
    /\ WithdrawControlShown(session)
    /\ StartAction("handleWithdraw", "Withdrawing ETH...", "withdraw", withdraw_start)

handleWithdraw_resume ==
    /\ Awaited("handleWithdraw")
    /\ IF action.step = "getBalance"
       THEN Succeed(updateContractBalance(session, result), "ETH withdrawn successfully!")
       ELSE IF result.status = "error" THEN Catch("Failed to withdraw ETH")
       ELSE Then(session, "getBalance", getBalance_start)

(***************************************************************************)
(* Specifications                                                          *)
(***************************************************************************)
vars == <<contractVars, providerVars, clientVars, uiVars>>

InitProvider ==
    /\ installed \in BOOLEAN
    /\ chainId \in ChainIds
    /\ sepoliaKnown \in BOOLEAN
    /\ chainId = SEPOLIA_CHAIN_ID => sepoliaKnown
    /\ ~installed => (chainId = "0x1" /\ ~sepoliaKnown)
    /\ authorized = <<>>
    /\ chainListeners = 0
    /\ netCallbacks = <<>>

InitClient ==
    /\ op = [name |-> "none", arg |-> NoRet]
    /\ pc = "idle"
    /\ handle = "none"
    /\ requests = <<>>
    /\ tx = NoTx
    /\ result = NoResult

Init == InitContract /\ InitProvider /\ InitClient /\ InitPage

\* The contract alone: any account calls any function
NextContract ==
    /\ UNCHANGED uiVars
    /\ \E sender \in Accounts :
        \/ CallOwner(sender)
        \/ \E m \in Messages : CallStoreMessage(sender, m)
        \/ CallGetMessage(sender)
        \/ \E value \in DepositValues : CallDeposit(sender, value)
        \/ CallWithdraw(sender)
        \/ CallGetBalance(sender)

\* The contract is called directly: the wallet and the page stay as they are
InitOnChain == Init /\ installed /\ chainId = SEPOLIA_CHAIN_ID

Spec == InitOnChain /\ [][NextContract]_vars

\* The wallet operations of the chain client layer over the provider, with
\* the user acting in the wallet
NextWallet ==
    /\ UNCHANGED uiVars
    /\ \/ connectWallet_start
       \/ connectWallet_await
       \/ checkNetwork_start
       \/ checkNetwork_await
       \/ switchToSepolia_start
       \/ switchToSepolia_awaitSwitch
       \/ switchToSepolia_awaitAdd
       \/ listenForNetworkChanges
       \/ \E id \in ChainIds : WalletSwitchChain(id)
       \/ \E accts \in AccountLists \cup {<<>>} : WalletSelectAccounts(accts)

SpecWallet == Init /\ [][NextWallet]_vars

\* A page the wallet already exposes accounts to or not, of the owner or of
\* another account; the accounts being interchangeable, one deployer is enough
InitConnected ==
    /\ InitContract /\ InitClient /\ InitPage
    /\ deployer = "0xa1"
    /\ InitProvider!1 /\ InitProvider!2 /\ InitProvider!3 /\ InitProvider!4 /\ InitProvider!5
    /\ authorized \in {<<>>} \cup {<<a>> : a \in Accounts}
    /\ ~installed => authorized = <<>>
    /\ chainListeners = 0
    /\ netCallbacks = <<>>

\* The wrappers of the contract's functions over the provider and the chain,
\* with the transactions of the other users of the contract
NextClient ==
    /\ UNCHANGED uiVars
    /\ \/ getContractOwner_start
       \/ getContractOwner_await
       \/ getMessage_start
       \/ getMessage_await
       \/ getBalance_start
       \/ getBalance_await
       \/ \E m \in Messages : storeMessage_start(m)
       \/ storeMessage_submit
       \/ storeMessage_wait
       \/ \E amount \in DepositAmounts : deposit_start(amount)
       \/ deposit_submit
       \/ deposit_wait
       \/ withdraw_start
       \/ withdraw_submit
       \/ withdraw_wait
       \/ IncludeTx
       \/ \E sender \in Accounts :
           \/ \E m \in Messages : CallStoreMessage(sender, m)
           \/ \E value \in DepositValues : CallDeposit(sender, value)
           \/ CallWithdraw(sender)

SpecClient == InitConnected /\ [][NextClient]_vars

\* The page over the chain client layer, the provider and the chain, with the
\* user acting in the page and answering its requests in the wallet, and no
\* other account transacting; the requests that change the exposed accounts
\* or the chain reach the listeners of the page
NextPage ==
    \/ App_mount
    \/ init_accounts
    \/ init_checkNetwork
    \/ init_getContractOwner
    \/ init_updateContractBalance
    \/ handleConnectWallet_start
    \/ handleConnectWallet_resume
    \/ handleSwitchNetwork_start
    \/ handleSwitchNetwork_resume
    \/ \E m \in MessageInputs : setMessage(m)
    \/ handleStoreMessage_start
    \/ handleStoreMessage_resume
    \/ handleGetMessage_start
    \/ handleGetMessage_resume
    \/ \E a \in AmountInputs : setDepositAmount(a)
    \/ handleDeposit_start
    \/ handleDeposit_resume
    \/ handleWithdraw_start
    \/ handleWithdraw_resume
    \/ connectWallet_await /\ Dispatch
    \/ checkNetwork_await /\ Dispatch
    \/ switchToSepolia_awaitSwitch /\ Dispatch
    \/ switchToSepolia_awaitAdd /\ Dispatch
    \/ getContractOwner_await /\ Dispatch
    \/ getMessage_await /\ Dispatch
    \/ getBalance_await /\ Dispatch
    \/ storeMessage_submit /\ Dispatch
    \/ storeMessage_wait /\ Dispatch
    \/ deposit_submit /\ Dispatch
    \/ deposit_wait /\ Dispatch
    \/ withdraw_submit /\ Dispatch
    \/ withdraw_wait /\ Dispatch
    \/ IncludeTx /\ Dispatch

SpecPage == InitConnected /\ [][NextPage]_vars

\* The page's session with the wallet: the mount effect, the connect and the
\* switch of the network, with the user acting in the wallet
NextSession ==
    \/ App_mount
    \/ init_accounts
    \/ init_checkNetwork
    \/ init_getContractOwner
    \/ init_updateContractBalance
    \/ handleConnectWallet_start
    \/ handleConnectWallet_resume
    \/ handleSwitchNetwork_start
    \/ handleSwitchNetwork_resume
    \/ connectWallet_await /\ Dispatch
    \/ checkNetwork_await /\ Dispatch
    \/ switchToSepolia_awaitSwitch /\ Dispatch
    \/ switchToSepolia_awaitAdd /\ Dispatch
    \/ getContractOwner_await /\ Dispatch
    \/ getBalance_await /\ Dispatch
    \/ \E id \in ChainIds : WalletSwitchChain(id) /\ Dispatch
    \/ \E accts \in AccountLists \cup {<<>>} : WalletSelectAccounts(accts) /\ Dispatch

SpecSession == InitConnected /\ [][NextSession]_vars

\* The mount effect, its cleanup and the events of the wallet
NextMount ==
    \/ App_mount
    \/ init_accounts
    \/ init_checkNetwork
    \/ init_getContractOwner
    \/ init_updateContractBalance
    \/ App_cleanup
    \/ \E id \in ChainIds : WalletSwitchChain(id) /\ Dispatch
    \/ \E accts \in AccountLists \cup {<<>>} : WalletSelectAccounts(accts) /\ Dispatch

SpecMount == InitConnected /\ [][NextMount]_vars

(***************************************************************************)
(* Properties of the contract (specification Spec)                         *)
(***************************************************************************)
\* C1: a withdraw succeeds only if the caller is the owner and the balance is
\* positive; in every other case it reverts and leaves owner, message, balance
\* (and every account's funds) as they were before the call.
C1_WithdrawGuarded ==
    lastCall.fn = "withdraw" =>
        /\ lastCall.ok => (lastCall.sender = pre.owner /\ pre.balance > 0)
        /\ ~(lastCall.sender = pre.owner /\ pre.balance > 0) =>
              (~lastCall.ok /\ ChainState = pre)

\* A withdraw by another account than the owner reverted on a funded contract
C1_Witness ==
    /\ lastCall.fn = "withdraw"
    /\ ~lastCall.ok
    /\ lastCall.sender # owner
    /\ balance > 0
    /\ message # ""

\* What a successful withdraw does: the owner receives the whole balance in the
\* one call and getBalance() reports 0, shown as "0.0"
WithdrawPaysOwner ==
    /\ wallet[pre.owner] = pre.wallet[pre.owner] + pre.balance
    /\ \A a \in Accounts \ {pre.owner} : wallet[a] = pre.wallet[a]
    /\ SimpleStorage_getBalance(ChainState, lastCall.sender).ret = 0
    /\ formatEther(SimpleStorage_getBalance(ChainState, lastCall.sender).ret)
         = [whole |-> 0, frac |-> <<0>>]

\* C2 as stated: withdraw fails when the caller differs from the owner and
\* succeeds for every call made by the owner; a successful withdraw pays the
\* owner the pre-withdraw balance and leaves a reported balance of 0.
C2_OwnerAlwaysSucceeds ==
    lastCall.fn = "withdraw" =>
        /\ lastCall.ok <=> (lastCall.sender = pre.owner)
        /\ lastCall.ok => WithdrawPaysOwner

\* C2 amended: withdraw fails when the caller differs from the owner or the
\* balance is 0, and succeeds for every call made by the owner on a positive
\* balance; a successful withdraw pays the owner the pre-withdraw balance B in
\* the one call and leaves a reported balance of 0.
C2_OwnerSucceedsOnFunds ==
    lastCall.fn = "withdraw" =>
        /\ lastCall.ok <=> (lastCall.sender = pre.owner /\ pre.balance > 0)
        /\ lastCall.ok => WithdrawPaysOwner

\* The owner withdrew a balance that another account had deposited
C2_Witness ==
    /\ lastCall.fn = "withdraw"
    /\ lastCall.ok
    /\ pre.balance > 0
    /\ \E a \in Accounts \ {owner} : wallet[a] < InitFunds
    /\ wallet[owner] > InitFunds

\* C3: a deposit never reverts, whoever calls and whatever the balance already
\* is, and getBalance() right after it reports the balance before plus
\* exactly the value attached, also through formatEther and back.
C3_DepositAddsValue ==
    lastCall.fn = "deposit" =>
        /\ lastCall.ok
        /\ SimpleStorage_getBalance(ChainState, lastCall.sender).ret
             = pre.balance + lastCall.arg
        /\ parseEther(formatEther(SimpleStorage_getBalance(ChainState, lastCall.sender).ret))
             = Ok(pre.balance + lastCall.arg)
        /\ wallet[lastCall.sender] = pre.wallet[lastCall.sender] - lastCall.arg

\* A deposit by another account than the owner on top of a balance that was
\* already more than one deposit
C3_Witness ==
    /\ lastCall.fn = "deposit"
    /\ lastCall.sender # owner
    /\ lastCall.arg > 0
    /\ pre.balance > WeiPerEther
    /\ balance > pre.balance

\* C4: storeMessage succeeds for every caller and getMessage() right after it
\* returns exactly the text; after any calls getMessage() returns the text of
\* the last storeMessage; storing the same text again leaves the state as it is.
C4_StoreThenGet ==
    /\ lastCall.fn = "storeMessage" =>
          /\ lastCall.ok
          /\ SimpleStorage_getMessage(ChainState, lastCall.sender).ret = lastCall.arg
          /\ \A a \in Accounts :
                SimpleStorage_storeMessage(ChainState, a, lastCall.arg).st = ChainState
    /\ stored # <<>> =>
          \A a \in Accounts : SimpleStorage_getMessage(ChainState, a).ret = stored[1]

\* Another account than the owner overwrote a text
C4_Witness ==
    /\ lastCall.fn = "storeMessage"
    /\ lastCall.sender # owner
    /\ pre.message = "hola"
    /\ lastCall.arg = "chau"

\* C5: the owner is the deploying account in every reachable state, and is
\* what the owner() getter returns to any caller.
C5_OwnerIsDeployer ==
    /\ owner = deployer
    /\ \A a \in Accounts : SimpleStorage_owner(ChainState, a).ret = deployer

\* After a successful withdraw, with a message stored and a deposit made by
\* another account
C5_Witness ==
    /\ lastCall.fn = "withdraw"
    /\ lastCall.ok
    /\ message # ""
    /\ \E a \in Accounts \ {deployer} : wallet[a] < InitFunds

\* C6: storeMessage leaves balance, owner and funds unchanged; deposit and
\* withdraw leave message and owner unchanged; the views leave the whole state
\* unchanged; the balance changes only in a successful deposit or withdraw, and
\* equals the sum of the deposits since the last successful withdraw.
C6_Frames ==
    /\ lastCall.fn = "storeMessage" =>
          (balance = pre.balance /\ owner = pre.owner /\ wallet = pre.wallet)
    /\ lastCall.fn \in {"deposit", "withdraw"} =>
          (message = pre.message /\ owner = pre.owner)
    /\ lastCall.fn \in {"getMessage", "getBalance", "owner"} => ChainState = pre
    /\ balance # pre.balance => (lastCall.fn \in {"deposit", "withdraw"} /\ lastCall.ok)
    /\ balance = deposited

\* A deposit after a successful withdraw, on a contract with a message
C6_Witness ==
    /\ lastCall.fn = "deposit"
    /\ lastCall.arg > 0
    /\ pre.balance = 0
    /\ message # ""
    /\ wallet[owner] > InitFunds

(***************************************************************************)
(* Properties of the wallet operations (specification SpecWallet)          *)
(***************************************************************************)
\* The methods of the requests an operation issued, in order
Methods(reqs) == [i \in DOMAIN reqs |-> reqs[i].method]

\* C7: without a provider connectWallet fails with "MetaMask is not installed"
\* and issues no request; with a provider it issues exactly one
\* eth_requestAccounts request and returns the first account of the answer, or
\* fails with "Failed to connect to wallet" when the request is rejected or errors.
C7_Connect ==
    op.name = "connectWallet" =>
        /\ pc = "eth_requestAccounts" => (installed /\ requests = <<>>)
        /\ (pc = "done" /\ ~installed) =>
              (result = Error("MetaMask is not installed") /\ requests = <<>>)
        /\ (pc = "done" /\ installed) =>
              /\ Methods(requests) = <<"eth_requestAccounts">>
              /\ requests[1].ok => result = Ok(Head(requests[1].value))
              /\ ~requests[1].ok =>
                    result = Wrap("Failed to connect to wallet", <<requests[1].message>>)

\* The user approved two accounts and connectWallet returned the first
C7_Witness ==
    /\ op.name = "connectWallet"
    /\ pc = "done"
    /\ result.status = "ok"
    /\ Len(requests[1].value) = 2
    /\ result.value = requests[1].value[1]

\* C8: checkNetwork returns true exactly when the chain id the provider answers
\* is 0xaa36a7 and false for every other one, and throws when the request
\* fails or there is no provider; the chainChanged listener hands its callback
\* the same comparison of the chain id it is pushed.
C8_CheckNetwork ==
    /\ (op.name = "checkNetwork" /\ pc = "done") =>
          IF installed
          THEN /\ Methods(requests) = <<"eth_chainId">>
               /\ requests[1].ok => result = Ok(requests[1].value = SEPOLIA_CHAIN_ID)
               /\ ~requests[1].ok =>
                     result = Wrap("Failed to check network", <<requests[1].message>>)
          ELSE result.status = "error" /\ requests = <<>>
    /\ \A i \in DOMAIN netCallbacks : netCallbacks[i] = (chainId = SEPOLIA_CHAIN_ID)

\* The wallet moved to Sepolia, the listener was told so, and checkNetwork
\* returned true
C8_Witness ==
    /\ op.name = "checkNetwork"
    /\ pc = "done"
    /\ result = Ok(TRUE)
    /\ netCallbacks = <<TRUE>>

\* The switch request of the operation failed with code 4902
SwitchFailedUnknown ==
    /\ op.name = "switchToSepolia"
    /\ requests # <<>>
    /\ ~requests[1].ok
    /\ requests[1].code = CHAIN_UNKNOWN

\* C9 as stated: after a switch request that fails with code 4902 the requests
\* are switch, add (with the fixed descriptor), switch, and success is
\* reported only after the retried switch.
C9_SwitchAddSwitch ==
    (SwitchFailedUnknown /\ pc = "done" /\ result.status = "ok") =>
        /\ Methods(requests) = <<"wallet_switchEthereumChain", "wallet_addEthereumChain",
                                 "wallet_switchEthereumChain">>
        /\ requests[2].params = AddParams
        /\ requests[3].ok

\* C9 amended: after a switch request that fails with code 4902 the operation
\* requests the registration of the target chain with the fixed descriptor
\* and does not request the switch again: the requests are switch, add, and
\* success is reported exactly when the add request succeeded.
C9_SwitchAdd ==
    SwitchFailedUnknown =>
        \/ pc = "wallet_addEthereumChain" /\ Len(requests) = 1
        \/ /\ pc = "done"
           /\ Methods(requests) = <<"wallet_switchEthereumChain", "wallet_addEthereumChain">>
           /\ requests[2].params = AddParams
           /\ requests[2].params.chainId = SEPOLIA_CHAIN_ID
           /\ result.status = "ok" <=> requests[2].ok
           /\ result.status = "ok" => result = Ok(TRUE)

\* switchToSepolia reported success after a 4902 and a successful add
C9_Witness ==
    /\ SwitchFailedUnknown
    /\ pc = "done"
    /\ result = Ok(TRUE)
    /\ Len(requests) = 2
    /\ requests[2].ok

\* C20: switchToSepolia requests wallet_addEthereumChain only after its switch
\* request failed with code 4902; a switch failure with another code ends the
\* operation with "Failed to switch to Sepolia network" and no add request; a
\* failed add ends it with "Failed to add Sepolia network"; it returns true
\* only if its last request, the switch or the add, succeeded.
C20_AddOnlyOnUnknownChain ==
    op.name = "switchToSepolia" =>
        /\ \A i \in DOMAIN requests :
              requests[i].method = "wallet_addEthereumChain" =>
                  /\ i = 2
                  /\ requests[1].method = "wallet_switchEthereumChain"
                  /\ ~requests[1].ok
                  /\ requests[1].code = CHAIN_UNKNOWN
        /\ pc = "wallet_addEthereumChain" => SwitchFailedUnknown
        /\ (pc = "done" /\ requests # <<>> /\ ~requests[1].ok
               /\ requests[1].code # CHAIN_UNKNOWN) =>
              /\ Len(requests) = 1
              /\ result = Wrap("Failed to switch to Sepolia network", <<requests[1].message>>)
        /\ (pc = "done" /\ Len(requests) = 2 /\ ~requests[2].ok) =>
              result = Wrap("Failed to add Sepolia network", <<requests[2].message>>)
        /\ (pc = "done" /\ result.status = "ok") =>
              (requests # <<>> /\ requests[Len(requests)].ok)

\* The user rejected the switch: the operation failed without an add request
C20_Witness ==
    /\ op.name = "switchToSepolia"
    /\ pc = "done"
    /\ Len(requests) = 1
    /\ ~requests[1].ok
    /\ requests[1].code \in UserCodes
    /\ result.status = "error"

(***************************************************************************)
(* Properties of the wrappers (specification SpecClient)                   *)
(***************************************************************************)
\* The wrappers that send a transaction, with the function each calls
WriteOps == {"storeMessage", "deposit", "withdraw"}

\* The wrappers that read, with the function each calls
ReadFn(name) ==
    CASE name = "getContractOwner" -> "owner"
      [] name = "getMessage" -> "getMessage"
      [] name = "getBalance" -> "getBalance"

ReadOps == {"getContractOwner", "getMessage", "getBalance"}

\* C10: a write wrapper submits its transaction through a signing handle and
\* has returned only if that transaction is in a block (never while it is
\* pending); a read wrapper uses a handle bound to the provider, submits no
\* transaction and requests nothing but the call of its view function.
C10_WrappersAwaitInclusion ==
    /\ op.name \in WriteOps =>
          /\ tx.status # "none" => (handle = "signer" /\ tx.fn = op.name)
          /\ pc = "done" => tx.status # "pending"
          /\ (pc = "done" /\ result.status = "ok") =>
                (handle = "signer" /\ tx.status = "included")
          /\ \A i \in DOMAIN requests : requests[i].ok => tx.status # "none"
    /\ op.name \in ReadOps =>
          /\ tx = NoTx
          /\ handle \in {"none", "provider"}
          /\ \A i \in DOMAIN requests :
                requests[i].method = "eth_call" /\ requests[i].params = ReadFn(op.name)
          /\ (pc = "done" /\ result.status = "ok") =>
                (handle = "provider" /\ Len(requests) = 1)

\* deposit returned after its transaction was executed by the contract
C10_Witness ==
    /\ op.name = "deposit"
    /\ pc = "done"
    /\ result.status = "ok"
    /\ tx.status = "included"
    /\ tx.chain = SEPOLIA_CHAIN_ID
    /\ lastCall.fn = "deposit"
    /\ balance > 0

(***************************************************************************)
(* Properties of the session (specification SpecSession)                   *)
(***************************************************************************)
\* No click handler and no init() is between two of its steps
AtRest ==
    /\ action.step \in {"none", "finished"}
    /\ init.pc \in {"unmounted", "done"}

\* An accountsChanged event reaches the listeners of the page in this step
AccountsChangedHandled == authorized' # authorized /\ closures # <<>>

\* C15: when isOwner is true and an accountsChanged event delivers an address
\* that is not the owner's, isOwner is false once the event is handled, on
\* either value of the network flag; the handler registered at mount reads no
\* owner, so no read can fail.
C15_OwnerFlagDropped ==
    [][(/\ AccountsChangedHandled
        /\ session.isOwner
        /\ authorized' # <<>>
        /\ authorized'[1] # owner)
       => ~session'.isOwner]_vars

\* The owner's session on Sepolia got the address of another account
C15_Witness ==
    /\ lastEvent.kind = "accountsChanged"
    /\ lastEvent.wasOwner
    /\ lastEvent.arg # <<>>
    /\ lastEvent.arg[1] # owner
    /\ session.account = lastEvent.arg[1]
    /\ session.isCorrectNetwork
    /\ ~session.isOwner

\* C16 as stated: whenever no handler is in flight, isOwner implies that the
\* session's account is the owner of the contract
C16_WithdrawOnlyForOwner ==
    (AtRest /\ session.isOwner) =>
        /\ session.account # null
        /\ SameAddress(session.account, owner)

C19_FirstAccountOrNull ==
    [][AccountsChangedHandled =>
          /\ authorized' # <<>> => session'.account = authorized'[1]
          /\ authorized' = <<>> => (session'.account = null /\ ~session'.isOwner)]_vars

\* The owner disconnected the page in the wallet
C19_Witness ==
    /\ lastEvent.kind = "accountsChanged"
    /\ lastEvent.arg = <<>>
    /\ lastEvent.wasOwner
    /\ session.account = null
    /\ ~session.isOwner

\* C14 as stated: getContractOwner and the balance refresh are run again
\* after every successful store, deposit and withdraw, and after every
\* accountsChanged and chainChanged event that leaves the session with an
\* account on Sepolia
C14_RecheckedAfterChange ==
    /\ [](((action.name \in {"handleStoreMessage", "handleDeposit", "handleWithdraw"}
              /\ action.outcome = "success")
            => {"getContractOwner", "getBalance"} \subseteq action.calls))
    /\ [][(/\ AccountsChangedHandled
           /\ authorized' # <<>>
           /\ session.isCorrectNetwork)
          => lastEvent'.next = "getContractOwner"]_vars
    /\ [][(/\ chainId' # chainId
           /\ closures # <<>>
           /\ chainId' = SEPOLIA_CHAIN_ID
           /\ session.account # null)
          => lastEvent'.next = "getContractOwner"]_vars

(***************************************************************************)
(* Properties of the click handlers (specification SpecPage)               *)
(***************************************************************************)
\* The prefix of the catch block of a click handler
ActionPrefix(name) ==
    CASE name = "handleConnectWallet" -> "Failed to connect wallet"
      [] name = "handleSwitchNetwork" -> "Failed to switch network"
      [] name = "handleStoreMessage" -> "Failed to store message"
      [] name = "handleGetMessage" -> "Failed to retrieve message"
      [] name = "handleDeposit" -> "Failed to deposit ETH"
      [] name = "handleWithdraw" -> "Failed to withdraw ETH"

\* The prefixes of the catch blocks of an operation of the chain client layer
ClientPrefixes(name) ==
    CASE name = "connectWallet" -> {"Failed to connect to wallet"}
      [] name = "checkNetwork" -> {"Failed to check network"}
      [] name = "switchToSepolia" ->
            {"Failed to switch to Sepolia network", "Failed to add Sepolia network"}
      [] name = "getContractOwner" -> {"Failed to get contract owner"}
      [] name = "storeMessage" -> {"Failed to store message"}
      [] name = "getMessage" -> {"Failed to get message"}
      [] name = "deposit" -> {"Failed to deposit ETH"}
      [] name = "withdraw" -> {"Failed to withdraw ETH"}
      [] name = "getBalance" -> {"Failed to get balance"}

\* A click handler is between two of its steps
InFlight == action.step \notin {"none", "finished"}

\* The click handler ends in this step
Finishing == InFlight /\ action'.step = "finished"

\* C11: when a click handler ends in its catch block, the status is an error
\* whose message is not empty and is the prefix naming the handler's operation
\* followed by the message of the chain client layer, itself not empty and
\* behind the prefix of the operation that threw, connectWallet without a
\* provider excepted, whose message is "MetaMask is not installed".
C11_ErrorsPrefixed ==
    [][(Finishing /\ action'.outcome = "error") =>
          /\ session'.status.type = "error"
          /\ session'.status.message = <<ActionPrefix(action.name)>> \o result.message
          /\ result.status = "error"
          /\ result.message # <<>>
          /\ \A i \in DOMAIN session'.status.message : session'.status.message[i] # ""
          /\ \/ result.message[1] \in ClientPrefixes(op.name) /\ Len(result.message) >= 2
             \/ op.name = "connectWallet" /\ result.message = <<"MetaMask is not installed">>]_vars

\* The owner's withdraw from the empty contract was refused by the contract
C11_Witness ==
    /\ action.name = "handleWithdraw"
    /\ action.outcome = "error"
    /\ session.status =
          Status("error", <<"Failed to withdraw ETH", "Failed to withdraw ETH", "Sin fondos">>)

\* C12 as stated: a click handler one of whose calls threw ended with the
\* status error
C12_ErrorsRendered ==
    (action.step = "finished" /\ action.failed) => action.outcome = "error"

\* C13 as stated: every click sets loading, and the handler ends with loading
\* false and with success when none of its calls threw and error when one did
C13_SuccessOrError ==
    /\ action.outcome # "invalid"
    /\ action.step = "finished" => ~session.loading
    /\ (action.step = "finished" /\ ~action.failed) => action.outcome = "success"
    /\ (action.step = "finished" /\ action.failed) => action.outcome = "error"

\* A step of the click handler in flight or of the request it awaits
HandlerStep ==
    \/ handleConnectWallet_resume
    \/ handleSwitchNetwork_resume
    \/ handleStoreMessage_resume
    \/ handleGetMessage_resume
    \/ handleDeposit_resume
    \/ handleWithdraw_resume
    \/ connectWallet_await /\ Dispatch
    \/ checkNetwork_await /\ Dispatch
    \/ switchToSepolia_awaitSwitch /\ Dispatch
    \/ switchToSepolia_awaitAdd /\ Dispatch
    \/ getContractOwner_await /\ Dispatch
    \/ getMessage_await /\ Dispatch
    \/ getBalance_await /\ Dispatch
    \/ storeMessage_submit /\ Dispatch
    \/ storeMessage_wait /\ Dispatch
    \/ deposit_submit /\ Dispatch
    \/ deposit_wait /\ Dispatch
    \/ withdraw_submit /\ Dispatch
    \/ withdraw_wait /\ Dispatch
    \/ IncludeTx /\ Dispatch

\* C13: a click that passes the input guard sets loading and the status
\* loading; while the handler is in flight loading stays true and the handler
\* or the request it awaits has a next step; it ends with loading false, with
\* the status error when a call other than the closing balance refresh threw,
\* with the prompt to switch when connect found another chain, and with
\* success otherwise, a failed balance refresh included; a click refused by
\* an input guard sets the status error and leaves loading false.
C13_ActionLifecycle ==
    /\ InFlight => (session.loading /\ ENABLED HandlerStep)
    /\ (InFlight /\ ~action.disturbed /\ action.calls = {}) => session.status.type = "loading"
    /\ action.step = "finished" => ~session.loading
    /\ action.step = "finished" =>
          /\ action.outcome \in {"success", "error", "prompt", "invalid"}
          /\ action.outcome = "error" <=> (action.failed /\ "getBalance" \notin action.calls)
          /\ action.outcome = "prompt" =>
                (action.name = "handleConnectWallet" /\ "checkNetwork" \in action.calls)
          /\ action.outcome = "invalid" =>
                (action.name \in {"handleStoreMessage", "handleDeposit"} /\ action.calls = {})
          /\ ~action.disturbed =>
                session.status.type =
                    (IF action.outcome = "success" THEN "success" ELSE "error")

\* A deposit ended with success although its balance refresh threw
C13_Witness ==
    /\ action.name = "handleDeposit"
    /\ action.step = "finished"
    /\ action.failed
    /\ action.outcome = "success"
    /\ session.status = Status("success", <<"ETH deposited successfully!">>)
    /\ ~session.loading

\* C18 as stated: when a deposit or a withdraw ended with success, the cached
\* balance is the balance of the contract after the transaction
C18_BalanceFresh ==
    (action.name \in {"handleDeposit", "handleWithdraw"} /\ action.outcome = "success")
        => session.contractBalance = formatEther(balance)

(***************************************************************************)
(* Claims about the busy flag                                              *)
(***************************************************************************)
\* C21: the buttons being disabled while loading is true, at most one click
\* handler body is between its setLoading(true) and its finally; while one
\* is, loading is true, and the finally that sets loading false leaves no
\* other handler running
C21_OneActionInFlight ==
    /\ action.running \in {0, 1}
    /\ InFlight <=> action.running = 1
    /\ InFlight => session.loading
    /\ (action.step = "finished" /\ ~session.loading) => action.running = 0

\* A handler waits for a call while the sections with the other buttons are
\* rendered
C21_Witness ==
    /\ InFlight
    /\ action.running = 1
    /\ session.loading
    /\ pc = "done"
    /\ SectionsShown(session)

\* C22: no handler gives up waiting: as long as the call a click handler
\* awaits has not returned to it, loading is true and the status is the
\* loading one, whatever else happens meanwhile (an accountsChanged or
\* chainChanged event, a step of init())
C22_PendingStaysLoading ==
    InFlight => (session.loading /\ session.status.type = "loading")

\* The part of C22 about loading alone
C22_PendingStaysBusy == InFlight => session.loading

\* C28: whenever loading is true the status is the loading one
C28_BusyShowsLoading == session.loading => session.status.type = "loading"

\* C23: a click handler that ended with an error status, with no event
\* handler and no step of init() writing the state meanwhile, left account,
\* isCorrectNetwork, isOwner, storedMessage, contractBalance and the two
\* input fields as they were when it started
C23_FailureKeepsSession ==
    (/\ action.step = "finished"
     /\ action.outcome \in {"error", "prompt", "invalid"}
     /\ ~action.disturbed)
    => action.intact

\* The part of C24 about the chain client layer: a request that failed is
\* followed by no other request of the same operation, but
\* wallet_addEthereumChain after wallet_switchEthereumChain failed with 4902
C24_NoRequestAfterFailure ==
    \A i \in 1..(Len(requests) - 1) :
        ~requests[i].ok =>
            /\ op.name = "switchToSepolia"
            /\ requests[i].method = "wallet_switchEthereumChain"
            /\ requests[i].code = CHAIN_UNKNOWN
            /\ requests[i + 1].method = "wallet_addEthereumChain"

\* The part of C24 about the click handlers: no handler makes a call again
\* that has returned or thrown to it
C24_NoCallTwice == InFlight => action.step \notin action.calls

\* C24: nothing is tried again on its own, neither a request by the chain
\* client layer nor a call by a click handler, and a handler ends with an
\* error status exactly when one of its calls failed
C24_NoRetry ==
    /\ C24_NoRequestAfterFailure
    /\ C24_NoCallTwice
    /\ action.step = "finished" => (action.failed <=> action.outcome = "error")

(***************************************************************************)
(* Claims about the event handlers and the listeners                       *)
(***************************************************************************)
\* C26: the event handlers work on the session as it is when the event
\* arrives: an accountsChanged event delivering the owner's address to a
\* session connected on Sepolia with another account leaves isOwner true or
\* the handler reading the owner, and a chainChanged event to Sepolia with an
\* account in the session leaves isOwner telling whether that account is the
\* owner, or the handler reading the owner
C26_HandlersSeeCurrentSession ==
    [][/\ (/\ AccountsChangedHandled
           /\ session.account # null
           /\ ~SameAddress(session.account, owner)
           /\ session.isCorrectNetwork
           /\ authorized' # <<>>
           /\ SameAddress(authorized'[1], owner))
          => (session'.isOwner \/ lastEvent'.next = "getContractOwner")
       /\ (/\ chainId' # chainId
           /\ closures # <<>>
           /\ chainId' = SEPOLIA_CHAIN_ID
           /\ session.account # null)
          => \/ session'.isOwner = SameAddress(session.account, owner)
             \/ lastEvent'.next = "getContractOwner"]_vars

\* The first half of C26 alone
C26_AccountHandlerSeesNetwork ==
    [][(/\ AccountsChangedHandled
        /\ session.account # null
        /\ ~SameAddress(session.account, owner)
        /\ session.isCorrectNetwork
        /\ authorized' # <<>>
        /\ SameAddress(authorized'[1], owner))
       => (session'.isOwner \/ lastEvent'.next = "getContractOwner")]_vars

(***************************************************************************)
(* Claims about the input guards                                           *)
(***************************************************************************)
\* The message field of the state f is empty or holds blanks only
C27_BlankMessage(f) == f.message \in {"", "  "}

\* The amount field of the state f is empty or holds a number that is not
\* positive
C27_NoAmount(f) ==
    \/ f.depositAmount = EmptyAmount
    \/ /\ f.depositAmount.whole = 0
       /\ \A i \in DOMAIN f.depositAmount.frac : f.depositAmount.frac[i] = 0

\* A click is refused in this step
C27_Refusal ==
    /\ ~InFlight
    /\ action' # action
    /\ ~action'.disturbed
    /\ action'.outcome = "invalid"

\* C27: a click on the store button with an empty or blank message field, or
\* on the deposit button with an empty or non-positive amount field, starts
\* no handler body, hence no call of the chain client layer and no request
\* to the provider; the click that is refused sets the error status and
\* leaves loading and the rest of the session as they were
C27_InputGuard ==
    /\ [](InFlight =>
            /\ action.name = "handleStoreMessage" => ~C27_BlankMessage(action.before)
            /\ action.name = "handleDeposit" => ~C27_NoAmount(action.before))
    /\ [][C27_Refusal =>
            /\ \/ /\ action'.name = "handleStoreMessage"
                  /\ C27_BlankMessage(session)
                  /\ session' = [session EXCEPT !.status =
                         Status("error", <<"Please enter a message to store.">>)]
               \/ /\ action'.name = "handleDeposit"
                  /\ C27_NoAmount(session)
                  /\ session' = [session EXCEPT !.status =
                         Status("error", <<"Please enter a valid amount to deposit.">>)]
            /\ action'.calls = {}
            /\ action'.running = 0
            /\ UNCHANGED <<contractVars, providerVars, clientVars>>
            /\ UNCHANGED <<init, closures, lastEvent>>]_vars

\* The deposit button was clicked with 0 in the amount field
C27_Witness ==
    /\ action.name = "handleDeposit"
    /\ action.outcome = "invalid"
    /\ session.depositAmount = [whole |-> 0, frac |-> <<>>]
    /\ session.status = Status("error", <<"Please enter a valid amount to deposit.">>)
    /\ ~session.loading
    /\ pc = "idle"

C29_AddedNotSwitched ==
    /\ action.name = "handleSwitchNetwork"
    /\ "wallet_addEthereumChain" \in action.calls
    /\ session.isCorrectNetwork
    /\ chainId # SEPOLIA_CHAIN_ID

\* The text init() shows without a provider
NotInstalledText ==
    <<"MetaMask is not installed. Please install MetaMask to use this DApp.">>

\* Nothing but the mount effect has written the session
C30_OnlyInit == action.name = "none" /\ lastEvent.kind = "none"

\* C30: without window.ethereum the mount effect sets the error status
\* telling that MetaMask is not installed, sends no request (init() is over
\* at once) and registers no listener; with a provider exposing no account
\* init() leaves account null, isOwner false and isCorrectNetwork false; no
\* step of init() writes loading
C30_InitOnMount ==
    /\ [](~installed =>
            /\ init.pc \in {"unmounted", "done"}
            /\ closures = <<>>
            /\ chainListeners = 0
            /\ (init.pc = "done" /\ C30_OnlyInit) =>
                   session.status = Status("error", NotInstalledText))
    /\ []((installed /\ init.pc = "done" /\ C30_OnlyInit /\ authorized = <<>>) =>
            /\ session.account = null
            /\ ~session.isOwner
            /\ ~session.isCorrectNetwork)
    /\ [][init' # init => session'.loading = session.loading]_vars

\* The page is mounted without a provider
C30_Witness ==
    /\ ~installed
    /\ init.pc = "done"
    /\ C30_OnlyInit
    /\ session.status = Status("error", NotInstalledText)
    /\ closures = <<>>
    /\ ~session.loading

\* init() is over with a provider that exposes no account
C30_NoAccount ==
    /\ installed
    /\ init.pc = "done"
    /\ C30_OnlyInit
    /\ authorized = <<>>
    /\ session.account = null
    /\ session.status.type = ""

\* C25: at most one listener of each event is registered at any time, and
\* none is once the cleanup of the mount effect has run, however often the
\* effect and its cleanup run
C25_ListenerLifecycle ==
    /\ Len(closures) <= 1
    /\ chainListeners <= 1
    /\ init.pc = "unmounted" => (closures = <<>> /\ chainListeners = 0)

====
